---- MODULE Spec2Model ----
(***************************************************************************)
(* A model of the autobattler's adversarial search: Solver::engage with    *)
(* its two strategies, the explicit-stack minimax loop with alpha/beta     *)
(* and early-defeat cutoffs, the resumable move generator, the utility     *)
(* evaluator and the combat state it works on.                             *)
(*                                                                         *)
(* Scores are f32 in the program.  Every score the program computes is an  *)
(* integer sum (health, damage taken) or 0.1 times such a sum, so the      *)
(* model keeps scores as integers counted in units of 1/Scale: a full      *)
(* score u is u * Scale and 0.1 * u is (u * Scale) \div 10.  The two       *)
(* infinities are the integers INFINITY and NEG_INFINITY, which no finite  *)
(* score of the model reaches.                                             *)
(*                                                                         *)
(* Indices (node ids, member positions) are 0-based as in the program;     *)
(* a Rust Vec v read at index i is the TLA+ sequence element v[i + 1].     *)
(* Option<usize> is an integer with NoId for None.                         *)
(***************************************************************************)
EXTENDS Integers, Sequences, FiniteSets, TLC

\* ------------------------------------------------------------------ bounds
\* Largest starting health of a member in the enumerated contests.
MaxHealth == 2
\* Largest weapon damage in the enumerated contests.
MaxDamage == 2
\* Largest number of members of the opponent party in the enumerated contests.
MaxMembers == 2
\* Largest depth argument of the enumerated strategies.
MaxDepth == 3

\* ------------------------------------------------------- program constants
\* f32::INFINITY, as an integer above every finite score of the model.
INFINITY == 1000000
NEG_INFINITY == -INFINITY
\* Scores are counted in units of 1/Scale, which makes the evaluator's
\* factor 0.1 exact.
Scale == 10
\* Option<usize>::None.
NoId == -1

Max(a, b) == IF a >= b THEN a ELSE b
Min(a, b) == IF a <= b THEN a ELSE b

\* Vec indexing, 0-based.
At(v, i) == v[i + 1]

\* ------------------------------------------------------------ party member
\* PartyMember::is_dead
is_dead(self) == self.health <= 0

\* PartyMember::can_act
member_can_act(self) == ~is_dead(self)

\* PartyMember::is_applicable
is_applicable(self, action) == ~is_dead(self)

\* handle_simple_attack with the damage taken subtracted instead of added.
handle_simple_attack_sub(self, attack) ==
    IF is_dead(self)
    THEN [applied |-> FALSE, member |-> self]
    ELSE [applied |-> TRUE,
          member  |-> [self EXCEPT !.health = Max(self.health - attack.damage, 0),
                                   !.damage_taken = self.damage_taken - attack.damage]]

\* PartyMember::handle_simple_attack (through handle_action): the member after
\* the attack and whether the attack was applied.
handle_simple_attack(self, attack) ==
    IF is_dead(self)
    THEN [applied |-> FALSE, member |-> self]
    ELSE [applied |-> TRUE,
          member  |-> [self EXCEPT !.health = Max(self.health - attack.damage, 0),
                                   !.damage_taken = self.damage_taken + attack.damage]]

\* AttackIterator::next for the iterator state `index`: the one simple attack
\* with the member's weapon at index 0, nothing afterwards.
AttackIterator_next(member, index) ==
    IF index = 0
    THEN [index |-> 1, some |-> TRUE, action |-> [damage |-> member.weapon]]
    ELSE [index |-> index, some |-> FALSE, action |-> [damage |-> 0]]

\* ------------------------------------------------------------------- party
\* Party::retreat
retreat(self) ==
    [self EXCEPT !.retreated = TRUE,
                 !.members = [i \in DOMAIN self.members |->
                                 [self.members[i] EXCEPT !.can_act = FALSE]]]

\* Party::is_defeated
is_defeated(self) == \A i \in DOMAIN self.members : is_dead(self.members[i])

\* Party::has_retreated
has_retreated(self) == self.retreated

\* Party::replace_member: the first member with the id of `member` is replaced.
replace_member(self, member) ==
    LET hits == {i \in DOMAIN self.members : self.members[i].id = member.id}
    IN  IF hits = {}
        THEN self
        ELSE LET k == CHOOSE i \in hits : \A j \in hits : i <= j
             IN  [self EXCEPT !.members[k] = member]

\* ------------------------------------------------------------------- value
Win(score) == [tag |-> "Win", score |-> score]
Defeat(score) == [tag |-> "Defeat", score |-> score]
Remain(score) == [tag |-> "Remain", score |-> score]
Retreat(score) == [tag |-> "Retreat", score |-> score]
Heuristic(score) == [tag |-> "Heuristic", score |-> score]

\* f32::is_finite on a terminal state's score.
is_finite(state) == state.score # INFINITY /\ state.score # NEG_INFINITY

\* TerminalState::is_negative
is_negative(state) == state.score < 0

\* Value::new
Value_new(value) == [alpha |-> NEG_INFINITY, value |-> value, beta |-> INFINITY]

\* Value::with_value
with_value(self, value) == [alpha |-> self.alpha, value |-> value, beta |-> self.beta]

\* is_alpha_cutoff comparing against beta instead of alpha.
is_alpha_cutoff_beta(self) == is_finite(self.value) /\ self.value.score <= self.beta

\* Value::is_alpha_cutoff
is_alpha_cutoff(self) == is_finite(self.value) /\ self.value.score <= self.alpha

\* is_beta_cutoff with `>` in place of `>=`.
is_beta_cutoff_strict(self) == is_finite(self.value) /\ self.value.score > self.beta

\* Value::is_beta_cutoff
is_beta_cutoff(self) == is_finite(self.value) /\ self.value.score >= self.beta

\* ----------------------------------------------------------------- utility
RECURSIVE SumOver(_, _, _)
\* Iterator::sum of f(member) over the members from position i (1-based) on.
SumOver(members, i, health) ==
    IF i > Len(members)
    THEN 0
    ELSE (IF health THEN Max(members[i].health, 0) ELSE -members[i].damage_taken)
         + SumOver(members, i + 1, health)

\* The sum of -damage_taken over the initiator's members.
NegDamageSum(state) == SumOver(state.initiator.members, 1, FALSE)

\* HealthSum over the opponent's members instead of the initiator's.
HealthSum_opponent(state) == SumOver(state.opponent.members, 1, TRUE)

\* The sum of max(health, 0) over the initiator's members.
HealthSum(state) == SumOver(state.initiator.members, 1, TRUE)

\* utility * 0.1, in units of 1/Scale.
Tenth(utility) == (utility * Scale) \div 10

\* get_utility asking for the opponent's defeat before the initiator's
\* withdrawal.
get_utility_reordered(state) ==
    IF is_defeated(state.initiator)
    THEN Defeat(NegDamageSum(state) * Scale)
    ELSE IF is_defeated(state.opponent)
         THEN Win(HealthSum(state) * Scale)
         ELSE IF has_retreated(state.initiator)
              THEN Retreat(Tenth(NegDamageSum(state)))
              ELSE IF has_retreated(state.opponent)
                   THEN Remain(Tenth(HealthSum(state)))
                   ELSE Heuristic(Tenth(HealthSum(state)))

\* get_utility, its two debug assertions aside.
get_utility(state) ==
    IF is_defeated(state.initiator) \/ has_retreated(state.initiator)
    THEN IF is_defeated(state.initiator)
         THEN Defeat(NegDamageSum(state) * Scale)
         ELSE Retreat(Tenth(NegDamageSum(state)))
    ELSE IF is_defeated(state.opponent)
         THEN Win(HealthSum(state) * Scale)
         ELSE IF has_retreated(state.opponent)
              THEN Remain(Tenth(HealthSum(state)))
              ELSE Heuristic(Tenth(HealthSum(state)))

\* The debug assertion get_utility makes on the branch it takes.
utility_assertion(state) ==
    IF is_defeated(state.initiator) \/ has_retreated(state.initiator)
    THEN NegDamageSum(state) < 0
    ELSE HealthSum(state) > 0

\* ---------------------------------------------------------- move generator
\* Option<T>: None is the empty sequence, Some(x) is <<x>>.
None == <<>>
Some(x) == <<x>>

\* AppliedAction::Flee
Flee == [kind |-> "Flee"]

\* AppliedAction::Targeted(TargetedAction { action, source, target })
Targeted(action, source, target) ==
    [kind |-> "Targeted", action |-> action, source |-> source, target |-> target]

\* Participant
Participant(party_id, member_id) == [party_id |-> party_id, member_id |-> member_id]

\* ActionTargetIterator::new: the member's attack iterator (AttackIterator::new,
\* index 0) and the range start..end of target positions.
ActionTargetIterator_new(member, start, end) ==
    [member |-> member, attack_index |-> 0, live |-> TRUE,
     enemy_index |-> start, start |-> start, end |-> end,
     action |-> None]

\* ActionTargetIterator::next, "reset to the first enemy if needed and
\* require a new action".
target_reset(self) ==
    IF self.enemy_index >= self.end
    THEN [self EXCEPT !.enemy_index = self.start, !.action = None]
    ELSE self

\* ActionTargetIterator::next, "generate a new action if needed" with the
\* result `attack` of the attack iterator's next.
target_generate(self, attack) ==
    IF self.action = None
    THEN [self EXCEPT !.attack_index = attack.index,
                      !.action = IF attack.some THEN Some(attack.action) ELSE None]
    ELSE self

\* ActionTargetIterator::next, "if there is an action, apply it to the
\* current enemy", else discard the generator.
target_apply(self) ==
    IF self.action # None
    THEN [iter |-> [self EXCEPT !.enemy_index = self.enemy_index + 1],
          some |-> TRUE, action |-> self.action[1], index |-> self.enemy_index]
    ELSE [iter |-> [self EXCEPT !.live = FALSE],
          some |-> FALSE, action |-> [damage |-> 0], index |-> 0]

\* ActionTargetIterator::next: the iterator afterwards and the (action, index)
\* pair it yields, if any.  `live` is "self.iter is Some".
ActionTargetIterator_next(self) ==
    IF ~self.live
    THEN [iter |-> self, some |-> FALSE, action |-> [damage |-> 0], index |-> 0]
    ELSE target_apply(target_generate(target_reset(self),
             AttackIterator_next(target_reset(self).member,
                                 target_reset(self).attack_index)))

\* ActionIterator::new with ActionIterator::new_in: all members of the acting
\* party, no target iterator yet; the withdrawal has not been offered yet.
ActionIterator_new(current, opponent) ==
    [current |-> current, opponent |-> opponent,
     current_index |-> 0, range_end |-> Len(current.members),
     iter |-> None, flee_emitted |-> FALSE]

RECURSIVE ActionIterator_targeted(_)

\* ActionIterator::next, `if self.iter.is_none()`: the target iterator of the
\* current member is created if there is none.
ensure_target_iter(self) ==
    IF self.iter = None
    THEN [self EXCEPT !.iter =
             Some(ActionTargetIterator_new(At(self.current.members, self.current_index),
                                           0, Len(self.opponent.members)))]
    ELSE self

\* ActionIterator::next, the arm `Some((action, target_index))` once the
\* target `opponent` is read: skipped if the action is not applicable to it.
yield_applicable(self, action, opponent) ==
    IF ~is_applicable(opponent, action)
    THEN ActionIterator_targeted(self)
    ELSE [iter |-> self,
          item |-> Targeted(action,
                            Participant(self.current.id,
                                        At(self.current.members, self.current_index).id),
                            Participant(self.opponent.id, opponent.id))]

\* ActionIterator::next, the match on the target iterator's result `r`.
match_target(self, r) ==
    IF ~r.some
    THEN ActionIterator_targeted(
             [self EXCEPT !.current_index = self.current_index + 1, !.iter = None])
    ELSE IF r.index >= Len(self.opponent.members)
    THEN [iter |-> [self EXCEPT !.iter = Some(r.iter)], item |-> [kind |-> "Panic"]]
    ELSE yield_applicable([self EXCEPT !.iter = Some(r.iter)], r.action,
                          At(self.opponent.members, r.index))

\* ActionIterator::next, one pass of its loop for a member that can act.
advance_target(self) == match_target(self, ActionTargetIterator_next(self.iter[1]))

\* The loop of ActionIterator::next: the iterator afterwards and the item it
\* yields.  An item of kind "None" is the end of the enumeration, "Panic" an
\* index outside the target party's member list.
ActionIterator_targeted(self) ==
    IF self.current_index >= self.range_end
    THEN [iter |-> self, item |-> [kind |-> "None"]]
    ELSE IF ~member_can_act(At(self.current.members, self.current_index))
    THEN ActionIterator_targeted([self EXCEPT !.current_index = self.current_index + 1])
    ELSE advance_target(ensure_target_iter(self))

\* Whether the generator offers the withdrawal now: the acting party may
\* withdraw, has not withdrawn, and the withdrawal was not offered before.
offers_flee(self) ==
    ~self.flee_emitted /\ self.current.can_retreat /\ ~self.current.retreated

\* The generator's next move: the withdrawal first, then the targeted moves.
ActionIterator_next(self) ==
    IF offers_flee(self)
    THEN [iter |-> [self EXCEPT !.flee_emitted = TRUE], item |-> Flee]
    ELSE ActionIterator_targeted(self)

\* -------------------------------------------------------------------- node
\* Node::new_root
new_root(conflict_, max_depth_) ==
    [id |-> 0, parent_id |-> NoId, depth |-> max_depth_, turn |-> 0,
     is_maximizing |-> TRUE,
     value |-> Value_new(Heuristic(NEG_INFINITY)),
     best_child |-> NoId, action |-> None, state |-> conflict_,
     action_iter |-> None]

\* new_branch_from numbering the child after its parent instead of by its
\* index in the node list.
new_branch_from_parent(id, parent, action, state) ==
    [id |-> parent.id + 1, parent_id |-> parent.id, is_maximizing |-> ~parent.is_maximizing,
     value |-> IF ~parent.is_maximizing
               THEN with_value(parent.value, Heuristic(NEG_INFINITY))
               ELSE with_value(parent.value, Heuristic(INFINITY)),
     best_child |-> NoId, depth |-> parent.depth + 1, turn |-> parent.turn + 1,
     action |-> Some(action), action_iter |-> None, state |-> state]

\* Node::new_branch_from
new_branch_from(id, parent, action, state) ==
    [id |-> id, parent_id |-> parent.id, is_maximizing |-> ~parent.is_maximizing,
     value |-> IF ~parent.is_maximizing
               THEN with_value(parent.value, Heuristic(NEG_INFINITY))
               ELSE with_value(parent.value, Heuristic(INFINITY)),
     best_child |-> NoId, depth |-> parent.depth + 1, turn |-> parent.turn + 1,
     action |-> Some(action), action_iter |-> None, state |-> state]

\* The party whose turn it is at a node, and the other one.
current_party(node) ==
    IF node.is_maximizing THEN node.state.initiator ELSE node.state.opponent
opponent_party(node) ==
    IF node.is_maximizing THEN node.state.opponent ELSE node.state.initiator

\* branch_state with the acting party always put under the initiator label.
branch_state_swapped(node, current, opponent) ==
    [initiator |-> current, opponent |-> opponent]

\* The Conflict a branch is created with: `current` and `opponent` put back
\* under the labels they came from.
branch_state(node, current, opponent) ==
    IF node.is_maximizing
    THEN [initiator |-> current, opponent |-> opponent]
    ELSE [initiator |-> opponent, opponent |-> current]

\* ExpansionResult::Exhausted
Exhaustion(node) == [kind |-> "Exhausted", node |-> node, child |-> node]

\* ExpansionResult::Expanded
Expansion(parent, child) == [kind |-> "Expanded", node |-> parent, child |-> child]

\* Solver::minimax_expand, the arm AppliedAction::Flee.
expand_flee(node, current, opponent, next_child_id) ==
    Expansion(node, new_branch_from(next_child_id, node, Flee,
                        branch_state(node, retreat(current), opponent)))

\* Solver::minimax_expand, the arm AppliedAction::Targeted after the target
\* handled the action: `hit` is the target afterwards and whether it applied.
expand_hit(node, current, opponent, item, hit, next_child_id) ==
    IF hit.applied
    THEN Expansion(node, new_branch_from(next_child_id, node,
                       Targeted(item.action,
                                Participant(current.id, item.source.member_id),
                                Participant(item.target.party_id, item.target.member_id)),
                       branch_state(node, current, replace_member(opponent, hit.member))))
    ELSE Exhaustion(node)

\* Solver::minimax_expand, the arm AppliedAction::Targeted: the target is
\* `opponent.members[action.target.member_id]`.
expand_targeted(node, current, opponent, item, next_child_id) ==
    IF item.target.member_id >= Len(opponent.members)
    THEN [kind |-> "Panic", node |-> node, child |-> node]
    ELSE expand_hit(node, current, opponent, item,
                    handle_simple_attack(At(opponent.members, item.target.member_id),
                                         item.action),
                    next_child_id)

\* Solver::minimax_expand, the match on the generator's next move.
expand_action(node, current, opponent, item, next_child_id) ==
    CASE item.kind = "Panic" -> [kind |-> "Panic", node |-> node, child |-> node]
      [] item.kind = "None" -> Exhaustion(node)
      [] item.kind = "Flee" -> expand_flee(node, current, opponent, next_child_id)
      [] item.kind = "Targeted" ->
             expand_targeted(node, current, opponent, item, next_child_id)

\* Solver::minimax_expand, the generator's result `r` stored back in the node.
expand_next(node, current, opponent, r, next_child_id) ==
    expand_action([node EXCEPT !.action_iter = Some(r.iter)], current, opponent,
                  r.item, next_child_id)

\* node_action_iter without the check: a new generator on every expansion.
node_action_iter_fresh(node, current, opponent) == ActionIterator_new(current, opponent)

\* Solver::minimax_expand, `if node.action_iter.is_none()`: the node's
\* generator, created on first use.
node_action_iter(node, current, opponent) ==
    IF node.action_iter = None
    THEN ActionIterator_new(current, opponent)
    ELSE node.action_iter[1]

\* expand_for without the check for a withdrawn acting party.
expand_for_withdrawn(node, current, opponent, next_child_id) ==
    expand_next(node, current, opponent,
                ActionIterator_next(node_action_iter(node, current, opponent)),
                next_child_id)

\* Solver::minimax_expand for the acting party `current` and the other one.
expand_for(node, current, opponent, next_child_id) ==
    IF has_retreated(current)
    THEN Exhaustion(node)
    ELSE expand_next(node, current, opponent,
                     ActionIterator_next(node_action_iter(node, current, opponent)),
                     next_child_id)

\* Solver::minimax_expand: "Expanded" with the parent (its iterator advanced)
\* and the child, "Exhausted" with the node, or "Panic" (an index outside a
\* member list).
minimax_expand(node, next_child_id) ==
    expand_for(node, current_party(node), opponent_party(node), next_child_id)

\* Variant of is_better: the minimizing party prefers the higher score too.
is_better_maximizing(parent_node, child_value) ==
    child_value.value.score > parent_node.value.value.score

\* Solver::propagate_to_parent, `is_better`.
is_better(parent_node, child_value) ==
    IF parent_node.is_maximizing
    THEN child_value.value.score > parent_node.value.value.score
    ELSE child_value.value.score < parent_node.value.value.score

\* take_better taking the child's score but not its tag.
take_better_score(parent_node, child_node) ==
    IF is_better(parent_node, child_node.value)
    THEN [parent_node EXCEPT !.value.value.score = child_node.value.value.score,
                             !.best_child = child_node.id]
    ELSE parent_node

\* Solver::propagate_to_parent, `if is_better { ... }`.
take_better(parent_node, child_node) ==
    IF is_better(parent_node, child_node.value)
    THEN [parent_node EXCEPT !.value.value = child_node.value.value,
                             !.best_child = child_node.id]
    ELSE parent_node

\* update_bounds also where the parent's value is a cutoff.
update_bounds_always(parent_node, child_value) ==
    IF parent_node.is_maximizing
    THEN [parent_node EXCEPT
             !.value.alpha = Max(parent_node.value.alpha, child_value.value.score)]
    ELSE [parent_node EXCEPT
             !.value.beta = Min(parent_node.value.beta, child_value.value.score)]

\* Solver::propagate_to_parent, the update of alpha or beta unless the
\* parent's value is a cutoff.
update_bounds(parent_node, child_value) ==
    IF parent_node.is_maximizing
    THEN IF is_beta_cutoff(parent_node.value)
         THEN parent_node
         ELSE [parent_node EXCEPT
                  !.value.alpha = Max(parent_node.value.alpha, child_value.value.score)]
    ELSE IF is_alpha_cutoff(parent_node.value)
         THEN parent_node
         ELSE [parent_node EXCEPT
                  !.value.beta = Min(parent_node.value.beta, child_value.value.score)]

\* Solver::propagate_to_parent: the node list after the finalized child's
\* value was handed to its parent.
propagate_to_parent(nodes_, child_node) ==
    IF child_node.parent_id = NoId
    THEN nodes_
    ELSE [nodes_ EXCEPT ![child_node.parent_id + 1] =
             update_bounds(take_better(At(nodes_, child_node.parent_id), child_node),
                           child_node.value)]

\* ------------------------------------------------------------------ inputs
\* PartyMember { id, health, damage_taken: 0, weapon, can_act: true }
member(id, health, damage) ==
    [id |-> id, health |-> health, damage_taken |-> 0, weapon |-> damage, can_act |-> TRUE]

\* Party { id, members, can_retreat, retreated: false }
party(id, members, can_retreat) ==
    [id |-> id, members |-> members, can_retreat |-> can_retreat, retreated |-> FALSE]

\* The initiators of the enumerated contests: party 0, one living member.
Initiators ==
    {party(0, <<member(0, h, d)>>, r) :
        h \in 1..MaxHealth, d \in 1..MaxDamage, r \in BOOLEAN}

\* The opponents of the enumerated contests: party 1, no to MaxMembers
\* members with ids 0, 1, ..., some of them possibly dead from the start.
Opponents ==
    UNION {{party(1, [i \in 1..n |-> member(i - 1, hd[i][1], hd[i][2])], r) :
               hd \in [1..n -> (0..MaxHealth) \X (1..MaxDamage)], r \in BOOLEAN} :
           n \in 0..MaxMembers}

\* Opponents whose member ids are unique and increasing but start at 1, so
\* that they differ from the members' positions 0 and 1.
OffsetOpponents ==
    {party(1, <<member(1, hd[1][1], hd[1][2]), member(2, hd[2][1], hd[2][2])>>, r) :
        hd \in [1..2 -> (0..MaxHealth) \X (1..MaxDamage)], r \in BOOLEAN}

\* Initiators of two members whose ids are unique and increasing but start
\* at 1; the second member may be dead from the start.
OffsetInitiators ==
    {party(0, <<member(1, hd[1][1], hd[1][2]), member(2, hd[2][1], hd[2][2])>>, r) :
        hd \in ((1..MaxHealth) \X (1..MaxDamage)) \X ((0..MaxHealth) \X (1..MaxDamage)),
        r \in BOOLEAN}

DepthLimited(n) == [kind |-> "DepthLimited", max_depth |-> n]
IterativeDeepening(n) == [kind |-> "IterativeDeepening", max_depth |-> n]

\* tests::build_default_hero_party
build_default_hero_party(can_retreat, health) ==
    party(0, <<member(0, health, 10)>>, can_retreat)

\* tests::build_complex_villain_party
build_complex_villain_party(can_retreat, dangerous_health) ==
    party(1, <<member(0, 15, 5), member(1, dangerous_health, 20)>>, can_retreat)

\* tests::build_simple_villain_party
build_simple_villain_party == party(1, <<member(0, 25, 10)>>, FALSE)

\* The contests and strategies of the solver's tests.
simple_fight_works ==
    [conflict |-> [initiator |-> build_default_hero_party(FALSE, 25),
                   opponent  |-> build_simple_villain_party],
     strategy |-> DepthLimited(200)]
complex_fight_works ==
    [conflict |-> [initiator |-> build_default_hero_party(TRUE, 20),
                   opponent  |-> build_complex_villain_party(FALSE, 10)],
     strategy |-> DepthLimited(100)]
complex_fight_opponent_flees ==
    [conflict |-> [initiator |-> build_default_hero_party(TRUE, 20),
                   opponent  |-> build_complex_villain_party(TRUE, 10)],
     strategy |-> DepthLimited(100)]
complex_fight_initiator_flees ==
    [conflict |-> [initiator |-> build_default_hero_party(TRUE, 20),
                   opponent  |-> build_complex_villain_party(TRUE, 15)],
     strategy |-> DepthLimited(100)]
complex_fight_initiator_defeated ==
    [conflict |-> [initiator |-> build_default_hero_party(FALSE, 20),
                   opponent  |-> build_complex_villain_party(TRUE, 15)],
     strategy |-> DepthLimited(100)]

\* tests::complex_fight_works with the initiator not permitted to withdraw.
complex_fight_without_retreat ==
    [conflict |-> [initiator |-> build_default_hero_party(FALSE, 20),
                   opponent  |-> build_complex_villain_party(FALSE, 10)],
     strategy |-> DepthLimited(100)]

\* The calls of Solver::engage on the enumerated contests.
Inputs ==
    {[conflict |-> [initiator |-> i, opponent |-> o], strategy |-> s] :
        i \in Initiators, o \in Opponents,
        s \in {DepthLimited(n) : n \in 0..MaxDepth}
              \cup {IterativeDeepening(n) : n \in 0..MaxDepth}}

\* The calls of Solver::engage on the contests with offset member ids.
OffsetInputs ==
    {[conflict |-> [initiator |-> i, opponent |-> o], strategy |-> DepthLimited(MaxDepth)] :
        i \in Initiators, o \in OffsetOpponents}

\* The calls of Solver::engage on the contests whose initiator has offset
\* member ids, against the opponents of one member.
OffsetInitiatorInputs ==
    {[conflict |-> [initiator |-> i, opponent |-> o], strategy |-> DepthLimited(MaxDepth)] :
        i \in OffsetInitiators, o \in {p \in Opponents : Len(p.members) = 1}}

\* The calls of Solver::engage in the solver's tests.
TestInputs ==
    {simple_fight_works, complex_fight_works, complex_fight_opponent_flees,
     complex_fight_initiator_flees, complex_fight_initiator_defeated,
     complex_fight_without_retreat}

\* ------------------------------------------------------------------- state
VARIABLES
    conflict,          \* engage's argument `conflict`
    strategy,          \* engage's argument `strategy`
    debug_assertions,  \* whether the build has debug assertions (cfg(debug_assertions))
    max_depth,         \* minimax's argument `max_depth` in the current run
    nodes,             \* minimax: the node list
    dfs_queue,         \* minimax: the work stack, its top last
    depth_limited,     \* minimax: depth_limited
    evaluations,       \* minimax: evaluations
    pruning_cuts,      \* minimax: pruning_cuts
    defeat_cuts,       \* how many of the cuts were early defeat cutoffs
    runs,              \* the outcomes of the runs of minimax completed so far
    pc                 \* "minimax" in the loop, "returned" or "panicked" after engage

vars == <<conflict, strategy, debug_assertions, max_depth, nodes, dfs_queue,
          depth_limited, evaluations, pruning_cuts, defeat_cuts, runs, pc>>

\* The `max_depth.max(1)` of both strategies.
strategy_max_depth == Max(strategy.max_depth, 1)

\* minimax's state before its loop.
minimax_start(depth) ==
    /\ max_depth' = depth
    /\ nodes' = <<new_root(conflict, 0)>>
    /\ dfs_queue' = <<0>>
    /\ depth_limited' = FALSE
    /\ evaluations' = 0
    /\ pruning_cuts' = 0
    /\ defeat_cuts' = 0

\* The state in which engage starts its first run of minimax.
engage(input, debug) ==
    /\ conflict = input.conflict
    /\ strategy = input.strategy
    /\ debug_assertions = debug
    /\ max_depth = IF input.strategy.kind = "DepthLimited"
                   THEN Max(input.strategy.max_depth, 1)
                   ELSE 1
    /\ nodes = <<new_root(input.conflict, 0)>>
    /\ dfs_queue = <<0>>
    /\ depth_limited = FALSE
    /\ evaluations = 0
    /\ pruning_cuts = 0
    /\ defeat_cuts = 0
    /\ runs = <<>>
    /\ pc = "minimax"

Init ==
    \/ \E input \in Inputs, debug \in BOOLEAN : engage(input, debug)
    \/ \E input \in TestInputs, debug \in BOOLEAN : engage(input, debug)
    \/ \E input \in OffsetInputs, debug \in BOOLEAN : engage(input, debug)
    \/ \E input \in OffsetInitiatorInputs, debug \in BOOLEAN : engage(input, debug)

\* ------------------------------------------------------------ minimax loop
\* The id the loop pops next, the node it clones and the stack below it.
top_id == dfs_queue[Len(dfs_queue)]
top_node == At(nodes, top_id)
popped_queue == SubSeq(dfs_queue, 1, Len(dfs_queue) - 1)

\* continue_expansion without the early defeat cutoff.
continue_expansion_undefeated(node) ==
    IF node.is_maximizing /\ is_beta_cutoff(node.value) THEN "beta"
    ELSE IF ~node.is_maximizing /\ is_alpha_cutoff(node.value) THEN "alpha"
    ELSE IF node.depth = max_depth THEN "depth"
    ELSE "expand"

\* The branch of `continue_expansion` the loop takes for a popped node.
continue_expansion(node) ==
    IF node.is_maximizing /\ is_beta_cutoff(node.value) THEN "beta"
    ELSE IF ~node.is_maximizing /\ is_alpha_cutoff(node.value) THEN "alpha"
    ELSE IF ~node.is_maximizing /\ is_negative(node.value.value) THEN "defeat"
    ELSE IF node.depth = max_depth THEN "depth"
    ELSE "expand"

\* Whether a call of get_utility on `state` gets past its debug assertion.
utility_returns(state) == debug_assertions => utility_assertion(state)

in_loop == pc = "minimax" /\ dfs_queue # <<>>

\* One iteration of the loop ending in `continue 'dfs` after a cutoff.
cutoff(node, branch) ==
    /\ in_loop
    /\ continue_expansion(node) = branch
    /\ dfs_queue' = popped_queue
    /\ evaluations' = evaluations + 1
    /\ pruning_cuts' = pruning_cuts + 1
    /\ nodes' = propagate_to_parent(nodes, node)
    /\ UNCHANGED <<conflict, strategy, debug_assertions, max_depth, depth_limited, runs, pc>>

BetaCutoff == cutoff(top_node, "beta") /\ UNCHANGED defeat_cuts

AlphaCutoff == cutoff(top_node, "alpha") /\ UNCHANGED defeat_cuts

DefeatCutoff == cutoff(top_node, "defeat") /\ defeat_cuts' = defeat_cuts + 1

\* `nodes[id].value = node.value.clone()` followed by propagate_to_parent.
store_value(nodes_, node) ==
    propagate_to_parent([nodes_ EXCEPT ![node.id + 1].value = node.value], node)

\* depth_reached without `depth_limited = true`.
depth_reached_unmarked(node) ==
    /\ in_loop
    /\ continue_expansion(node) = "depth"
    /\ utility_returns(node.state)
    /\ nodes' = store_value(nodes, [node EXCEPT !.value.value = get_utility(node.state)])
    /\ dfs_queue' = popped_queue
    /\ evaluations' = evaluations + 1
    /\ UNCHANGED <<conflict, strategy, debug_assertions, max_depth, depth_limited,
                   pruning_cuts, defeat_cuts, runs, pc>>

\* One iteration of the loop for the node `node` at the maximum depth.
depth_reached(node) ==
    /\ in_loop
    /\ continue_expansion(node) = "depth"
    /\ utility_returns(node.state)
    /\ nodes' = store_value(nodes, [node EXCEPT !.value.value = get_utility(node.state)])
    /\ depth_limited' = TRUE
    /\ dfs_queue' = popped_queue
    /\ evaluations' = evaluations + 1
    /\ UNCHANGED <<conflict, strategy, debug_assertions, max_depth, pruning_cuts,
                   defeat_cuts, runs, pc>>

DepthReached == depth_reached(top_node)

\* expanded with the child pushed before the parent.
expanded_child_first(node, result) ==
    /\ in_loop
    /\ continue_expansion(node) = "expand"
    /\ result.kind = "Expanded"
    /\ dfs_queue' = popped_queue \o <<result.child.id, result.node.id>>
    /\ nodes' = [Append(nodes, result.child) EXCEPT ![result.node.id + 1] = result.node]
    /\ evaluations' = evaluations + 1
    /\ UNCHANGED <<conflict, strategy, debug_assertions, max_depth, depth_limited,
                   pruning_cuts, defeat_cuts, runs, pc>>

\* One iteration of the loop that adds a child: `result` is what
\* minimax_expand returned.
expanded(node, result) ==
    /\ in_loop
    /\ continue_expansion(node) = "expand"
    /\ result.kind = "Expanded"
    /\ dfs_queue' = popped_queue \o <<result.node.id, result.child.id>>
    /\ nodes' = [Append(nodes, result.child) EXCEPT ![result.node.id + 1] = result.node]
    /\ evaluations' = evaluations + 1
    /\ UNCHANGED <<conflict, strategy, debug_assertions, max_depth, depth_limited,
                   pruning_cuts, defeat_cuts, runs, pc>>

Expanded == expanded(top_node, minimax_expand(top_node, Len(nodes)))

\* exhausted_value that always asks the evaluator.
exhausted_value_utility(node) == get_utility(node.state)

\* The value of an exhausted node: its own if finite, the utility otherwise.
exhausted_value(node) ==
    IF is_finite(node.value.value) THEN node.value.value ELSE get_utility(node.state)

\* The node list after an exhausted node was finalized, handed to its parent
\* and written back.
finalize(nodes_, node) == [store_value(nodes_, node) EXCEPT ![node.id + 1] = node]

\* One iteration of the loop for a node whose moves are exhausted: `result`
\* is what minimax_expand returned.
exhausted(node, result) ==
    /\ in_loop
    /\ continue_expansion(node) = "expand"
    /\ result.kind = "Exhausted"
    /\ is_finite(result.node.value.value) \/ utility_returns(result.node.state)
    /\ nodes' = finalize(nodes, [result.node EXCEPT
                                    !.value.value = exhausted_value(result.node)])
    /\ dfs_queue' = popped_queue
    /\ evaluations' = evaluations + 1
    /\ UNCHANGED <<conflict, strategy, debug_assertions, max_depth, depth_limited,
                   pruning_cuts, defeat_cuts, runs, pc>>

Exhausted == exhausted(top_node, minimax_expand(top_node, Len(nodes)))

\* engage aborts.
panic ==
    /\ pc' = "panicked"
    /\ UNCHANGED <<conflict, strategy, debug_assertions, max_depth, nodes, dfs_queue,
                   depth_limited, evaluations, pruning_cuts, defeat_cuts, runs>>

\* An iteration in which a debug assertion of get_utility fails.
assertion_panic(node, result) ==
    /\ in_loop
    /\ \/ /\ continue_expansion(node) = "depth"
          /\ ~utility_returns(node.state)
       \/ /\ continue_expansion(node) = "expand"
          /\ result.kind = "Exhausted"
          /\ ~is_finite(result.node.value.value)
          /\ ~utility_returns(result.node.state)
    /\ panic

AssertionPanic == assertion_panic(top_node, minimax_expand(top_node, Len(nodes)))

\* An iteration in which a member list is indexed outside its bounds.
index_panic(node, result) ==
    /\ in_loop
    /\ continue_expansion(node) = "expand"
    /\ result.kind = "Panic"
    /\ panic

IndexPanic == index_panic(top_node, minimax_expand(top_node, Len(nodes)))

\* --------------------------------------------------------------- backtrack
\* The OutcomeType backtrack reports for the root's value.
OutcomeType(value) ==
    [tag |-> CASE value.tag = "Win" -> "Win"
               [] value.tag = "Defeat" -> "Lose"
               [] value.tag = "Remain" -> "Remain"
               [] value.tag = "Retreat" -> "Retreat"
               [] value.tag = "Heuristic" -> "Unknown",
     score |-> value.score]

\* The Event backtrack records for a node.
Event(node) ==
    [turn |-> node.turn, is_initiator_turn |-> node.is_maximizing,
     action |-> node.action[1], state |-> node.state, depth |-> node.depth]

RECURSIVE timeline_from(_, _)
RECURSIVE timeline_from_skipping(_, _)
\* timeline_from that skips the node it starts from.
timeline_from_skipping(nodes_, id) ==
    IF At(nodes_, id).best_child # NoId
    THEN <<Event(At(nodes_, At(nodes_, id).best_child))>>
         \o timeline_from_skipping(nodes_, At(nodes_, id).best_child)
    ELSE <<>>

\* The 'backtracking loop from the node with the given id.
timeline_from(nodes_, id) ==
    <<Event(At(nodes_, id))>>
    \o (IF At(nodes_, id).best_child # NoId
        THEN timeline_from(nodes_, At(nodes_, id).best_child)
        ELSE <<>>)

\* Whether backtrack finds the best child it expects of the root.
has_best_child == At(nodes, 0).best_child # NoId

\* Solver::backtrack on the finished search.
backtrack ==
    [outcome |-> OutcomeType(At(nodes, 0).value.value),
     timeline |-> timeline_from(nodes, At(nodes, 0).best_child),
     evaluations |-> evaluations, cuts |-> pruning_cuts,
     depth_limited |-> depth_limited, max_depth |-> max_depth]

loop_done == pc = "minimax" /\ dfs_queue = <<>>

\* BacktrackPanic returning an outcome with an empty timeline instead.
BacktrackEmpty ==
    /\ loop_done
    /\ ~has_best_child
    /\ runs' = Append(runs, [outcome |-> OutcomeType(At(nodes, 0).value.value),
                             timeline |-> <<>>,
                             evaluations |-> evaluations, cuts |-> pruning_cuts,
                             depth_limited |-> depth_limited, max_depth |-> max_depth])
    /\ pc' = "returned"
    /\ UNCHANGED <<conflict, strategy, debug_assertions, max_depth, nodes, dfs_queue,
                   depth_limited, evaluations, pruning_cuts, defeat_cuts>>

\* backtrack aborts: the root has no best child.
BacktrackPanic ==
    /\ loop_done
    /\ ~has_best_child
    /\ panic

\* ------------------------------------------------------------------ engage
\* engage hands the outcome of the run to its caller.
return ==
    /\ runs' = Append(runs, backtrack)
    /\ pc' = "returned"
    /\ UNCHANGED <<conflict, strategy, debug_assertions, max_depth, nodes, dfs_queue,
                   depth_limited, evaluations, pruning_cuts, defeat_cuts>>

\* SolverStrategy::DepthLimited: the one run's outcome is returned.
DepthLimitedReturn ==
    /\ loop_done
    /\ has_best_child
    /\ strategy.kind = "DepthLimited"
    /\ return

\* should_stop that never stops on a win.
should_stop_never(outcome) == FALSE

\* should_stop of the iterative deepening loop.
should_stop(outcome) == outcome.outcome.tag = "Win"

\* iddfs_finished with `&&` in place of `||`.
iddfs_finished_and(outcome) == ~outcome.depth_limited /\ should_stop(outcome)

\* `!outcome.depth_limited || should_stop`
iddfs_finished(outcome) == ~outcome.depth_limited \/ should_stop(outcome)

\* iddfs_exceeded off by one.
iddfs_exceeded_late(depth) == depth > strategy_max_depth + 1

\* `depth > max_depth` after `depth += 1`
iddfs_exceeded(depth) == depth > strategy_max_depth

\* SolverStrategy::IterativeDeepening: the run decides the search.
IddfsFinish ==
    /\ loop_done
    /\ has_best_child
    /\ strategy.kind = "IterativeDeepening"
    /\ iddfs_finished(backtrack)
    /\ return

\* SolverStrategy::IterativeDeepening: the next run, one ply deeper.
IddfsDeepen ==
    /\ loop_done
    /\ has_best_child
    /\ strategy.kind = "IterativeDeepening"
    /\ ~iddfs_finished(backtrack)
    /\ ~iddfs_exceeded(max_depth + 1)
    /\ runs' = Append(runs, backtrack)
    /\ minimax_start(max_depth + 1)
    /\ UNCHANGED <<conflict, strategy, debug_assertions, pc>>

\* SolverStrategy::IterativeDeepening: the maximum depth is used up.
IddfsStop ==
    /\ loop_done
    /\ has_best_child
    /\ strategy.kind = "IterativeDeepening"
    /\ ~iddfs_finished(backtrack)
    /\ iddfs_exceeded(max_depth + 1)
    /\ return

Next ==
    \/ BetaCutoff
    \/ AlphaCutoff
    \/ DefeatCutoff
    \/ DepthReached
    \/ Expanded
    \/ Exhausted
    \/ AssertionPanic
    \/ IndexPanic
    \/ BacktrackPanic
    \/ DepthLimitedReturn
    \/ IddfsFinish
    \/ IddfsDeepen
    \/ IddfsStop

Spec == Init /\ [][Next]_vars

\* ================================================================== claims
\* The outcome engage returned.
result == runs[Len(runs)]

\* ------------------------------------------------------------------- C1
\* The reference of C1: the minimax value of the depth-bounded tree with no
\* cutoff at all.  It walks the same moves in the same order through
\* minimax_expand and keeps, like propagate_to_parent, the first of equally
\* good children.
RECURSIVE full_minimax(_, _)

full_take(parent_node, child_value) ==
    IF (parent_node.is_maximizing /\ child_value.score > parent_node.value.value.score)
       \/ (~parent_node.is_maximizing /\ child_value.score < parent_node.value.value.score)
    THEN [parent_node EXCEPT !.value.value = child_value]
    ELSE parent_node

full_expand(expansion, limit) ==
    CASE expansion.kind = "Expanded" ->
             full_minimax(full_take(expansion.node, full_minimax(expansion.child, limit)),
                          limit)
      [] expansion.kind = "Exhausted" ->
             IF expansion.node.value.value.score \in {INFINITY, NEG_INFINITY}
             THEN get_utility(expansion.node.state)
             ELSE expansion.node.value.value
      [] expansion.kind = "Panic" -> [tag |-> "Panic", score |-> 0]

full_minimax(node, limit) ==
    IF node.depth = limit
    THEN get_utility(node.state)
    ELSE full_expand(minimax_expand(node, node.id + 1), limit)

iterative == strategy.kind = "IterativeDeepening"

\* No run is started and no node exists beyond the depth `limit`.
explores_within(limit) ==
    /\ max_depth <= limit
    /\ \A i \in DOMAIN nodes : nodes[i].depth <= limit

\* C3 as claimed: IterativeDeepening(max_n) starts no run deeper than max_n
\* and creates no node of a ply greater than max_n.
C3_NeverPastMaxN == iterative => explores_within(strategy.max_depth)

\* C3 as amended: IterativeDeepening(max_n) starts no run deeper than
\* max(max_n, 1) and creates no node of a ply greater than max(max_n, 1).
C3_NeverPastMaxNOrOne ==
    iterative => explores_within(IF strategy.max_depth >= 1 THEN strategy.max_depth ELSE 1)

\* Iterative deepening with max_n of at least 2 in its deepest run, a node at
\* ply max_n created.
C3_Witness ==
    /\ iterative
    /\ strategy.max_depth >= 2
    /\ max_depth = strategy.max_depth
    /\ \E i \in DOMAIN nodes : nodes[i].depth = strategy.max_depth

\* ------------------------------------------------------------------- C4
\* C4 as claimed: the score IterativeDeepening(max_n) returns is at least the
\* score of the depth-1 run, which is what FixedDepth(1) returns.
C4_NoWorseThanDepthOne ==
    (iterative /\ pc = "returned") => result.outcome.score >= runs[1].outcome.score

\* C4 as amended: the score IterativeDeepening(max_n) returns is at least
\* FixedDepth(1)'s when max_n is at most 1 or FixedDepth(1)'s result is a Win.
C4_NoWorseThanDepthOneIfStopped ==
    (/\ iterative
     /\ pc = "returned"
     /\ strategy.max_depth <= 1 \/ runs[1].outcome.tag = "Win")
        => result.outcome.score >= runs[1].outcome.score

\* Iterative deepening allowed to go deeper returned after a Win at depth 1.
C4_Witness ==
    /\ iterative
    /\ pc = "returned"
    /\ strategy.max_depth >= 2
    /\ runs[1].outcome.tag = "Win"

\* ------------------------------------------------------------------- C5
\* The runs of minimax started so far.
runs_started == Len(runs) + (IF pc = "returned" THEN 0 ELSE 1)

\* A run's outcome that ends iterative deepening: a Win, or not depth-limited.
ends_deepening(outcome) == outcome.outcome.tag = "Win" \/ ~outcome.depth_limited

\* The stopping rule of C5 with at most `limit` runs.
deepening_rule(limit) ==
    /\ \A i \in DOMAIN runs : runs[i].max_depth = i
    /\ pc = "minimax" => max_depth = Len(runs) + 1
    /\ \A i \in DOMAIN runs : i < runs_started => ~ends_deepening(runs[i])
    /\ pc = "returned" => ends_deepening(result) \/ result.max_depth = limit
    /\ runs_started <= limit

\* C5 as claimed: iterative deepening runs the depths 1, 2, 3, ... in order,
\* returns the first run that is a Win or not depth-limited, else the run at
\* depth max_n, and makes at most max_n runs.
C5_StoppingRule == iterative => deepening_rule(strategy.max_depth)

\* C5 as amended: the same with max(max_n, 1) in place of max_n.
C5_StoppingRuleMaxNOrOne ==
    iterative => deepening_rule(IF strategy.max_depth >= 1 THEN strategy.max_depth ELSE 1)

\* Iterative deepening returned from its third run, the one at its maximum
\* depth, with a result that is no Win and depth-limited.
C5_Witness ==
    /\ iterative
    /\ pc = "returned"
    /\ Len(runs) = 3
    /\ strategy.max_depth = 3
    /\ ~ends_deepening(result)

\* ------------------------------------------------------------------- C6
\* The evaluator as C6 describes it.
ordered_utility(state) ==
    CASE is_defeated(state.initiator) -> Defeat(NegDamageSum(state) * Scale)
      [] ~is_defeated(state.initiator) /\ has_retreated(state.initiator) ->
             Retreat(Tenth(NegDamageSum(state)))
      [] ~is_defeated(state.initiator) /\ ~has_retreated(state.initiator)
         /\ is_defeated(state.opponent) -> Win(HealthSum(state) * Scale)
      [] ~is_defeated(state.initiator) /\ ~has_retreated(state.initiator)
         /\ ~is_defeated(state.opponent) /\ has_retreated(state.opponent) ->
             Remain(Tenth(HealthSum(state)))
      [] OTHER -> Heuristic(Tenth(HealthSum(state)))

sign_holds(value, state) ==
    /\ value.tag \in {"Win", "Remain"} => value.score >= 0
    /\ value.tag \in {"Defeat", "Retreat"} => value.score <= 0
    /\ (value.tag = "Heuristic" /\ ~is_defeated(state.initiator)) => value.score >= 0

\* C7: on the state of every node the search reaches, the evaluator's score
\* is >= 0 for Win and Remain, <= 0 for Defeat and Retreat, and >= 0 for
\* Heuristic when the initiator is not defeated.
C7_ScoreSigns ==
    \A i \in DOMAIN nodes : sign_holds(get_utility(nodes[i].state), nodes[i].state)

\* A node whose state the evaluator classifies Defeat with a negative score.
C7_Witness ==
    \E i \in DOMAIN nodes :
        /\ get_utility(nodes[i].state).tag = "Defeat"
        /\ get_utility(nodes[i].state).score < 0

\* --------------------------------------------------------------- C8 - C10
\* engage was called with the contest and strategy of the test `input`.
called_with(input) == conflict = input.conflict /\ strategy = input.strategy

\* engage returned an outcome of the given tag and score (in units of
\* 1/Scale) with a principal variation of `length` events.
returns(tag, score, length) ==
    /\ pc # "panicked"
    /\ pc = "returned" =>
           /\ result.outcome.tag = tag
           /\ result.outcome.score = score
           /\ Len(result.timeline) = length

\* C8: Scenario D (tests::complex_fight_initiator_flees) returns Retreat with
\* score -0.5 and a principal variation of 2 events.
C8_ScenarioD == called_with(complex_fight_initiator_flees) => returns("Retreat", -5, 2)

\* C9: Scenario E (tests::complex_fight_initiator_defeated) returns Lose with
\* score -20.0 and a principal variation of 8 events.
C9_ScenarioE == called_with(complex_fight_initiator_defeated) => returns("Lose", -200, 8)

\* C10: Scenario C (tests::complex_fight_opponent_flees) returns Remain with
\* score 2.0 and a principal variation of 3 events.
C10_ScenarioC == called_with(complex_fight_opponent_flees) => returns("Remain", 20, 3)

\* ---------------------------------------------------------------- C11, C12
\* C11: Scenario B (tests::complex_fight_works: a 20-health, 10-damage
\* initiator against opponents of 15 health / 5 damage and 10 health /
\* 20 damage that may not withdraw, depth limit 100) returns Win with score
\* 10.0 and a principal variation of 5 events, whether the initiator may
\* withdraw (as the test builds it) or may not.
C11_ScenarioB ==
    (called_with(complex_fight_works) \/ called_with(complex_fight_without_retreat))
        => returns("Win", 100, 5)

C11_Witness == called_with(complex_fight_works) /\ pc = "returned"

\* C12: Scenario A (tests::simple_fight_works: two parties of one member with
\* 25 health and 10 damage each, neither permitted to withdraw, depth limit
\* 200) ends without a panic and returns Win with score 5.0.
C12_ScenarioA ==
    called_with(simple_fight_works) =>
        /\ pc # "panicked"
        /\ pc = "returned" => result.outcome = Win(5 * Scale)

C12_Witness == called_with(simple_fight_works) /\ pc = "returned"

\* --------------------------------------------------------------------- C13
\* The ids of the children of the node `id`, and the first one created.
children(id) == {c \in 0..(Len(nodes) - 1) : At(nodes, c).parent_id = id}
first_child(id) == At(nodes, CHOOSE c \in children(id) : \A d \in children(id) : c <= d)

\* The party may withdraw and has not withdrawn.
may_withdraw(self) == self.can_retreat /\ ~self.retreated

\* The first move of a new generator for the party acting at `node`.
first_move(node) ==
    ActionIterator_next(ActionIterator_new(current_party(node), opponent_party(node))).item

\* At a node whose acting party may withdraw, the generator's first move is
\* the withdrawal; once the node was expanded, its first child is the
\* withdrawal and every later child a targeted move.
withdraws_first(node) ==
    /\ first_move(node) = Flee
    /\ node.action_iter # None =>
           /\ children(node.id) # {}
           /\ first_child(node.id).action = Some(Flee)
           /\ \A c \in children(node.id) :
                  c # first_child(node.id).id => At(nodes, c).action[1].kind = "Targeted"

\* At a node whose acting party may not withdraw or has withdrawn, the
\* generator never yields the withdrawal and no child is one.
never_withdraws(node) ==
    /\ first_move(node) # Flee
    /\ node.action_iter # None => ActionIterator_next(node.action_iter[1]).item # Flee
    /\ \A c \in children(node.id) : At(nodes, c).action # Some(Flee)

RECURSIVE pulls(_, _)
\* The item of the pull with the result `r`, and those of the `k - 1` pulls
\* after it unless it panicked.
pulled(r, k) ==
    IF r.item.kind = "Panic" THEN <<r.item>> ELSE <<r.item>> \o pulls(r.iter, k - 1)

\* The items of `k` successive pulls of targeted moves from the generator
\* `self`; the pulls end with the first one that panics.
pulls(self, k) ==
    IF k = 0 THEN <<>> ELSE pulled(ActionIterator_targeted(self), k)

\* members x actions x targets for the generator `self`; a member has one
\* action.
combinations(self) == Len(self.current.members) * 1 * Len(self.opponent.members)

\* The move `a` comes before the move `b` in the order of (acting member,
\* action, target); all moves have the acting member's one action.
lexicographically_before(a, b) ==
    \/ a.source.member_id < b.source.member_id
    \/ a.source.member_id = b.source.member_id /\ a.target.member_id < b.target.member_id

\* The acting member of the move `a` is a member of `self` that can act.
by_acting_member(self, a) ==
    \E m \in DOMAIN self.members :
        self.members[m].id = a.source.member_id /\ member_can_act(self.members[m])

\* The items `s` pulled from a new generator `self`, two pulls more than
\* there are combinations: targeted moves in strictly ascending order by
\* members that can act, then nothing on every later pull.
enumerates_in_order(self, s) ==
    /\ Len(s) = combinations(self) + 2
    /\ \A i \in DOMAIN s : s[i].kind \in {"Targeted", "None"}
    /\ \A i \in DOMAIN s : s[i].kind = "Targeted" => by_acting_member(self.current, s[i])
    /\ \A i, j \in DOMAIN s :
           i < j =>
              /\ s[i].kind = "Targeted" /\ s[j].kind = "Targeted" =>
                     lexicographically_before(s[i], s[j])
              /\ s[i].kind = "None" => s[j].kind = "None"
    /\ s[combinations(self) + 1].kind = "None"

\* enumerates_in_order for a new generator `self`.
generator_in_order(self) == enumerates_in_order(self, pulls(self, combinations(self) + 2))

\* C14: for every acting party and target party, the targeted moves come in
\* lexicographic order of (acting member, action, target), members that
\* cannot act are skipped, no combination comes twice, and after at most
\* members x actions x targets moves the generator returns nothing on this
\* and every later pull.
C14_TargetedInOrder ==
    \A i \in 1..Len(nodes) :
        generator_in_order(ActionIterator_new(current_party(nodes[i]),
                                              opponent_party(nodes[i])))

\* --------------------------------------------------------------------- C15
\* The contract of the damage application for the member `self` and the
\* damage `damage`, on the result `hit` of handle_simple_attack.
applies_damage(self, damage, hit) ==
    /\ is_dead(self) => ~hit.applied /\ hit.member = self
    /\ ~is_dead(self) =>
           /\ hit.applied
           /\ hit.member.health = Max(0, self.health - damage)
           /\ hit.member.damage_taken = self.damage_taken + damage
           /\ hit.member = [self EXCEPT !.health = hit.member.health,
                                        !.damage_taken = hit.member.damage_taken]
    /\ hit.member.health >= 0

\* The members of both parties of a state.
members_of(state) ==
    {state.initiator.members[m] : m \in DOMAIN state.initiator.members}
        \cup {state.opponent.members[m] : m \in DOMAIN state.opponent.members}

\* C15: applying damage to a dead member returns false and leaves it
\* unchanged; applying it to a living member returns true, sets its health to
\* max(0, health - damage) and adds the full damage to its cumulative damage;
\* health is never negative.  Checked for every member of every state the
\* search reaches and every damage up to MaxHealth + MaxDamage.
C15_DamageApplication ==
    \A i \in 1..Len(nodes) :
        \A self \in members_of(nodes[i].state) :
            /\ self.health >= 0
            /\ \A damage \in 0..(MaxHealth + MaxDamage) :
                   applies_damage(self, damage,
                                  handle_simple_attack(self, [damage |-> damage]))

\* A member hit by the search is dead with more cumulative damage than the
\* health it started with.
C15_Witness ==
    \E i \in 1..Len(nodes) :
        \E m \in DOMAIN nodes[i].state.opponent.members :
            /\ nodes[i].action # None
            /\ nodes[i].action[1].kind = "Targeted"
            /\ nodes[i].state.opponent.members[m].health = 0
            /\ nodes[i].state.opponent.members[m].damage_taken
                   > conflict.opponent.members[m].health
            /\ conflict.opponent.members[m].health > 0

\* --------------------------------------------------------------------- C16
\* C16: in the state of every node, the initiator label holds the party with
\* the id of the root's initiator and the opponent label the party with the
\* id of the root's opponent, whoever acted; the labels never swap.
C16_LabelsAnchored ==
    \A i \in 1..Len(nodes) :
        /\ nodes[i].state.initiator.id = conflict.initiator.id
        /\ nodes[i].state.opponent.id = conflict.opponent.id

\* Nodes created by a move of the opponent: one by its withdrawal and one
\* by a hit on the initiator.
C16_Witness ==
    /\ conflict.initiator.id # conflict.opponent.id
    /\ \E i, j \in 1..Len(nodes) :
           /\ nodes[i].is_maximizing /\ nodes[i].action = Some(Flee)
           /\ nodes[j].is_maximizing /\ nodes[j].action # None
           /\ nodes[j].action[1].kind = "Targeted"

\* --------------------------------------------------------------------- C17
\* The party has withdrawn: has_retreated holds and retreat's `can_act = false`
\* stands on every member.
withdrawn(self) ==
    has_retreated(self) /\ \A m \in DOMAIN self.members : ~self.members[m].can_act

\* The party that made the move a non-root node was created by.
mover(node) == IF node.is_maximizing THEN node.state.opponent ELSE node.state.initiator

\* A party withdrawn in the state of `parent` is withdrawn in that of `child`.
stays_withdrawn(parent, child) ==
    /\ has_retreated(parent.state.initiator) => withdrawn(child.state.initiator)
    /\ has_retreated(parent.state.opponent) => withdrawn(child.state.opponent)

RECURSIVE best_chain(_)
\* The id of the k-th node on the chain of best-child pointers from the root.
best_chain(k) ==
    IF k = 1 THEN At(nodes, 0).best_child ELSE At(nodes, best_chain(k - 1)).best_child

\* The party `self` after the hit `action` on its member with the id
\* `member_id`.
hit_member(self, member_id, action) ==
    [self EXCEPT !.members =
        [m \in DOMAIN self.members |->
            IF self.members[m].id = member_id
            THEN handle_simple_attack(self.members[m], action).member
            ELSE self.members[m]]]

\* The state after `action` was applied to `state` by the initiator or by the
\* opponent.
apply_move(state, by_initiator, action) ==
    IF action.kind = "Flee"
    THEN IF by_initiator
         THEN [state EXCEPT !.initiator = retreat(state.initiator)]
         ELSE [state EXCEPT !.opponent = retreat(state.opponent)]
    ELSE IF by_initiator
         THEN [state EXCEPT !.opponent =
                  hit_member(state.opponent, action.target.member_id, action.action)]
         ELSE [state EXCEPT !.initiator =
                  hit_member(state.initiator, action.target.member_id, action.action)]

\* The state the k-th event of the timeline `t` starts from.
state_before(t, k) == IF k = 1 THEN conflict ELSE t[k - 1].state

\* The k-th event of the timeline `t` is the event of the k-th node of the
\* chain, is ply k, and its state is the state before it with its move
\* applied by the party whose ply it is.
is_chain_event(t, k) ==
    /\ best_chain(k) # NoId
    /\ t[k].action = At(nodes, best_chain(k)).action[1]
    /\ t[k].state = At(nodes, best_chain(k)).state
    /\ t[k].turn = k /\ t[k].depth = k
    /\ t[k].state = apply_move(state_before(t, k), k % 2 = 1, t[k].action)

\* The timeline `t` is the chain of best-child pointers from the root up to
\* the first node without a best child.
is_principal_variation(t) ==
    /\ t # <<>>
    /\ \A k \in DOMAIN t : is_chain_event(t, k)
    /\ At(nodes, best_chain(Len(t))).best_child = NoId

\* C18: the principal variation returned is the chain of best-child pointers
\* from the root: its first event is the root's best child, each next one
\* the best child of the one before, it ends at the first node without a
\* best child, its plies are 1, 2, 3, ... without gaps, and each event's
\* state is the previous event's state with the event's move applied.
C18_PrincipalVariation == pc = "returned" => is_principal_variation(result.timeline)

\* A principal variation of three events or more is returned.
C18_Witness == pc = "returned" /\ Len(result.timeline) >= 3

\* --------------------------------------------------------------------- C19
\* C19: a search whose root has no best child aborts; no outcome is ever
\* returned with an empty principal variation, and engage returns only with a
\* best child at the root.
C19_NoBestChildAborts ==
    /\ \A r \in DOMAIN runs : runs[r].timeline # <<>>
    /\ pc = "returned" => has_best_child
    /\ (pc # "minimax" /\ dfs_queue = <<>> /\ ~has_best_child) => pc = "panicked"

\* The search was run on an opponent whose members were all dead from the
\* start, its loop ended with no child at the root, and it aborted.
C19_Witness ==
    /\ conflict.opponent.members # <<>>
    /\ is_defeated(conflict.opponent)
    /\ dfs_queue = <<>>
    /\ children(0) = {}
    /\ pc = "panicked"

\* --------------------------------------------------------------------- C20
\* The move the expansion of `node` pulls from the node's generator.
pulled_move(node) ==
    ActionIterator_next(node_action_iter(node, current_party(node),
                                         opponent_party(node))).item

\* The expansion of `node`, whose acting party has not withdrawn, treats the
\* node as exhausted only if the generator yielded nothing.
exhausted_by_generator(node) ==
    (~has_retreated(current_party(node))
     /\ minimax_expand(node, Len(nodes)).kind = "Exhausted")
        => pulled_move(node).kind = "None"

\* C20: when the effect of a pulled targeted move does not take hold on its
\* target, no child is created and the node pulls the next move; the node is
\* treated as exhausted only when the generator yields nothing.
C20_DeadTargetSkipped ==
    (in_loop /\ continue_expansion(top_node) = "expand") => exhausted_by_generator(top_node)

\* --------------------------------------------------------------------- C21
\* Among the items `s` pulled from the generator `self` there is a targeted
\* move for every acting member that can act and every member of the target
\* party, dead or alive.
emits_every_target(self, s) ==
    \A m \in DOMAIN self.current.members, t \in DOMAIN self.opponent.members :
        member_can_act(self.current.members[m]) =>
            \E i \in DOMAIN s :
                /\ s[i].kind = "Targeted"
                /\ s[i].source.member_id = self.current.members[m].id
                /\ s[i].target.member_id = self.opponent.members[t].id

\* emits_every_target for a new generator `self`.
generator_unfiltered(self) ==
    emits_every_target(self, pulls(self, combinations(self) + 2))

\* C21: the generator does not filter by target eligibility: for every
\* eligible acting member it emits one targeted move for every member of the
\* target party, including the members that are already dead.
C21_GeneratorUnfiltered ==
    \A i \in 1..Len(nodes) :
        generator_unfiltered(ActionIterator_new(current_party(nodes[i]),
                                                opponent_party(nodes[i])))

\* --------------------------------------------------------------------- C22
\* The node with the given id is not on the work stack: a node other than
\* the root is then finalized.
resolved(id) == \A q \in DOMAIN dfs_queue : dfs_queue[q] # id

\* The child `c` of a node is finalized with a negative score.
negative_child(c) == resolved(c) /\ is_negative(At(nodes, c).value.value)

\* A minimizing node gets no child after one that resolved to a negative
\* score, and carries that child's value from then on.
closed_by_defeat(node) ==
    \A c \in children(node.id) :
        negative_child(c) =>
            /\ \A d \in children(node.id) : d <= c
            /\ node.best_child = c
            /\ node.value.value = At(nodes, c).value.value

\* C22: a minimizing node whose value is negative is never expanded again;
\* it is finalized with that value at its next pop, so it has at most one
\* child with a negative resolved score and that child is its last child.
C22_EarlyDefeatCutoff ==
    /\ \A i \in 1..Len(nodes) : ~nodes[i].is_maximizing => closed_by_defeat(nodes[i])
    /\ (in_loop /\ ~top_node.is_maximizing /\ is_negative(top_node.value.value))
           => continue_expansion(top_node) \in {"alpha", "defeat"}

\* A minimizing node was finalized by the early defeat cutoff after a child
\* with a negative score, while its generator still held a move and its
\* value was above alpha.
C22_Witness ==
    \E i \in 1..Len(nodes) :
        /\ ~nodes[i].is_maximizing
        /\ resolved(nodes[i].id)
        /\ \E c \in children(nodes[i].id) : negative_child(c)
        /\ ~is_alpha_cutoff(nodes[i].value)
        /\ ActionIterator_next(nodes[i].action_iter[1]).item.kind = "Targeted"

\* --------------------------------------------------------------------- C23
\* A maximizing node's finite value has reached its beta, or a minimizing
\* node's finite value its alpha.
past_bound(node) ==
    /\ node.value.value.score # INFINITY /\ node.value.value.score # NEG_INFINITY
    /\ IF node.is_maximizing
       THEN node.value.value.score >= node.value.beta
       ELSE node.value.value.score <= node.value.alpha

\* The child that took a node past its bound is the node's last child and
\* is finalized (a leaf valued by the evaluator has no child at all); the
\* node itself waits on top of the work stack or is finalized too.
closed_by_bound(node) ==
    /\ \A d \in children(node.id) : d <= node.best_child /\ resolved(d)
    /\ resolved(node.id) \/ (dfs_queue # <<>> /\ top_id = node.id)

\* No node past its bound has a child still open or created later.
bounds_close_nodes == \A i \in 1..Len(nodes) : past_bound(nodes[i]) => closed_by_bound(nodes[i])

\* The pop of a node past its bound finalizes it: no node is added, the
\* node and its generator stay as they are, and the pruning-cut counter
\* increases by exactly one.
pop_past_bound ==
    (in_loop /\ past_bound(top_node)) =>
        /\ Len(nodes') = Len(nodes)
        /\ At(nodes', top_id) = top_node
        /\ dfs_queue' = popped_queue
        /\ pruning_cuts' = pruning_cuts + 1

\* C23: once a maximizing node's finite value is at or above its beta, or a
\* minimizing node's finite value at or below its alpha, no further child of
\* the node is created; propagation leaves the node on the stack, and at its
\* next pop it is finalized without pulling a move while the pruning-cut
\* counter increases by exactly one.
C23_BoundCutoff == [](bounds_close_nodes) /\ [][pop_past_bound]_vars

\* A node past its bound was finalized by a cut while its generator still
\* held a move.
C23_Witness ==
    \E i \in 1..Len(nodes) :
        /\ past_bound(nodes[i])
        /\ resolved(nodes[i].id)
        /\ pruning_cuts >= 1
        /\ ActionIterator_next(nodes[i].action_iter[1]).item.kind = "Targeted"

\* --------------------------------------------------------------------- C24
\* The search stays within ply `d`: no node is deeper, every node at ply `d`
\* is a leaf which, once finalized, carries the evaluator's classification of
\* its own state, and an outcome is returned as depth-limited if and only
\* if a node at ply `d` was created.
depth_bounded(d) ==
    /\ \A i \in 1..Len(nodes) :
          /\ nodes[i].depth <= d
          /\ nodes[i].depth = d =>
                /\ children(nodes[i].id) = {}
                /\ resolved(nodes[i].id) =>
                       nodes[i].value.value = get_utility(nodes[i].state)
    /\ pc = "returned" =>
          (result.depth_limited <=> \E i \in 1..Len(nodes) : nodes[i].depth = d)

fixed_depth == strategy.kind = "DepthLimited"

\* C24 as stated: a fixed-depth search with maximum depth d stays within ply
\* d, values every node at ply d by the evaluator, and reports
\* was_depth_limited if and only if a node at ply d was created.
C24_FixedDepth == fixed_depth => depth_bounded(strategy.max_depth)

\* C24 with the maximum depth the search uses, max(d, 1).
C24_FixedDepthOrOne == fixed_depth => depth_bounded(Max(strategy.max_depth, 1))

\* A fixed-depth search with maximum depth 2 or more returned a
\* depth-limited outcome.
C24_Witness ==
    /\ fixed_depth
    /\ strategy.max_depth >= 2
    /\ pc = "returned"
    /\ result.depth_limited
    /\ \E i \in 1..Len(nodes) : nodes[i].depth = strategy.max_depth

\* --------------------------------------------------------------------- C25
\* The score `v` is strictly better than the score `w` for the parent.
strictly_better(parent, v, w) == IF parent.is_maximizing THEN v > w ELSE v < w

\* The parent `after` the propagation of the finalized child `child` took the
\* child's classification and recorded the child as best child if and only
\* if the child's score was strictly better than the score of the parent
\* `before`.
takes_strictly_better(before, after, child) ==
    IF strictly_better(before, child.value.value.score, before.value.value.score)
    THEN after.value.value = child.value.value /\ after.best_child = child.id
    ELSE after.value.value = before.value.value /\ after.best_child = before.best_child

\* The maximizing parent's alpha was raised to max(alpha, v), the minimizing
\* parent's beta lowered to min(beta, v), the other bound left as it was.
moves_bound(before, after, v) ==
    IF before.is_maximizing
    THEN /\ after.value.alpha = Max(before.value.alpha, v)
         /\ after.value.beta = before.value.beta
    ELSE /\ after.value.beta = Min(before.value.beta, v)
         /\ after.value.alpha = before.value.alpha

\* The bounds of the parent were left as they were.
keeps_bounds(before, after) ==
    after.value.alpha = before.value.alpha /\ after.value.beta = before.value.beta

\* A step of the loop finalizes the node on top of the stack, which has a
\* parent.
finalizes_child ==
    /\ in_loop /\ pc' = "minimax"
    /\ dfs_queue' = popped_queue
    /\ top_node.parent_id # NoId

\* The propagation rule as stated, for the parent before and after the step
\* and the finalized child.
propagates(before, after, child) ==
    /\ takes_strictly_better(before, after, child)
    /\ moves_bound(before, after, child.value.value.score)

\* The propagation rule with the bounds left alone once the parent's new
\* value is past its bound.
propagates_unless_past_bound(before, after, child) ==
    /\ takes_strictly_better(before, after, child)
    /\ IF past_bound(after)
       THEN keeps_bounds(before, after)
       ELSE moves_bound(before, after, child.value.value.score)

\* Among the finalized children of a node, the best child has the best
\* score and is the earliest child with that score.
earliest_optimum(node) ==
    node.best_child # NoId =>
        \A d \in children(node.id) :
            resolved(d) =>
                /\ ~strictly_better(node, At(nodes, d).value.value.score,
                                    At(nodes, node.best_child).value.value.score)
                /\ d < node.best_child =>
                       strictly_better(node, At(nodes, node.best_child).value.value.score,
                                       At(nodes, d).value.value.score)

ties_keep_earliest == \A i \in 1..Len(nodes) : earliest_optimum(nodes[i])

\* C25 as stated: when a finalized child with score v propagates, the parent
\* takes the child's classification and records it as best child only if v
\* is strictly better than its current score, and then moves alpha to
\* max(alpha, v) or beta to min(beta, v); a tie never replaces the best child.
C25_Propagation ==
    /\ [][finalizes_child =>
             propagates(At(nodes, top_node.parent_id), At(nodes', top_node.parent_id),
                        At(nodes', top_id))]_vars
    /\ []ties_keep_earliest

\* C25 with the bound moved only while the parent's new value is not past
\* its bound.
C25_PropagationUnlessPastBound ==
    /\ [][finalizes_child =>
             propagates_unless_past_bound(At(nodes, top_node.parent_id),
                                          At(nodes', top_node.parent_id),
                                          At(nodes', top_id))]_vars
    /\ []ties_keep_earliest

\* A node has two finalized children of the same score, the earlier one its
\* best child.
C25_Witness ==
    \E i \in 1..Len(nodes) :
        /\ \E c, d \in children(nodes[i].id) :
              /\ c < d /\ resolved(d)
              /\ nodes[i].best_child = c
              /\ At(nodes, d).value.value.score = At(nodes, c).value.value.score

\* --------------------------------------------------------------------- C26
RECURSIVE is_descendant(_, _)
\* The node `node` is a proper descendant of the node with the id `id`.
is_descendant(node, id) ==
    /\ node.parent_id # NoId
    /\ node.parent_id = id \/ is_descendant(At(nodes, node.parent_id), id)

\* The node is finalized: off the stack with a finite value.
finalized(node) == resolved(node.id) /\ is_finite(node.value.value)

\* The value of the child `child` has been propagated to `parent`: the
\* parent has a best child and its score is no worse than the child's.
propagated(parent, child) ==
    /\ parent.best_child # NoId
    /\ ~strictly_better(parent, child.value.value.score, parent.value.value.score)

\* When the node `parent` is about to be popped, all its descendants are
\* finalized and the values of its children propagated to it.
pops_after_subtree(parent) ==
    \A i \in 1..Len(nodes) :
        /\ is_descendant(nodes[i], parent.id) => finalized(nodes[i])
        /\ nodes[i].parent_id = parent.id => propagated(parent, nodes[i])

\* C26: between the expansion that creates a child c of a node p and the
\* next pop of p, c and every descendant of c are finalized and the value of
\* c is propagated to p; p is never popped while a descendant of p is on the
\* stack.
C26_ChildBeforeParent == in_loop => pops_after_subtree(top_node)

\* A node is about to be popped again after a child with a child of its own.
C26_Witness ==
    /\ in_loop
    /\ \E c \in children(top_id) : children(c) # {}

\* --------------------------------------------------------------------- C27
RECURSIVE after_pulls(_, _)
\* The generator `self` after `k` pulls.
after_pulls(self, k) ==
    IF k = 0 THEN self ELSE after_pulls(ActionIterator_next(self).iter, k - 1)

\* The k-th move pulled from the generator `self`.
kth_move(self, k) == ActionIterator_next(after_pulls(self, k - 1)).item

\* The ids of the children of the node `id` in the order of their creation.
RECURSIVE children_in_order(_, _)
children_in_order(id, from) ==
    IF from >= Len(nodes) THEN <<>>
    ELSE (IF At(nodes, from).parent_id = id THEN <<from>> ELSE <<>>)
         \o children_in_order(id, from + 1)

\* The children `cs` of `node`, in the order of their creation, carry the
\* first moves of a new generator for the node's parties, in its order.
in_generator_order(node, cs) ==
    \A k \in DOMAIN cs :
        At(nodes, cs[k]).action =
            Some(kth_move(ActionIterator_new(current_party(node), opponent_party(node)), k))

\* The generator stored in `node` is the one attached at the first
\* expansion, advanced by one pull per child and at most one pull more.
resumes_generator(node, pulled_) ==
    node.action_iter # None =>
        \/ node.action_iter[1] =
               after_pulls(ActionIterator_new(current_party(node), opponent_party(node)),
                           pulled_)
        \/ node.action_iter[1] =
               after_pulls(ActionIterator_new(current_party(node), opponent_party(node)),
                           pulled_ + 1)

\* No two children of the node carry the same move.
distinct_moves(id) ==
    \A c, d \in children(id) : c # d => At(nodes, c).action # At(nodes, d).action

\* C27: a generator is attached to a node once, at its first expansion, and
\* every later visit resumes it: the moves that become the node's children
\* appear in generator order, none is issued twice, and no two children of a
\* node carry the same move.
C27_ResumableGenerator ==
    \A i \in 1..Len(nodes) :
        /\ in_generator_order(nodes[i], children_in_order(nodes[i].id, 0))
        /\ resumes_generator(nodes[i], Cardinality(children(nodes[i].id)))
        /\ distinct_moves(nodes[i].id)

\* A node was expanded on three visits and has three children.
C27_Witness == \E i \in 1..Len(nodes) : Cardinality(children(nodes[i].id)) >= 3

\* --------------------------------------------------------------------- C28
\* The loop is about to expand the node on top of the stack and its
\* generator is exhausted (or the acting party has withdrawn).
exhausts_top ==
    /\ in_loop
    /\ continue_expansion(top_node) = "expand"
    /\ minimax_expand(top_node, Len(nodes)).kind = "Exhausted"

\* The value an exhausted node resolves to: the one received from its
\* children if it has a child, the evaluator's classification of its own
\* state otherwise.
resolves_to(node) ==
    IF children(node.id) # {} THEN node.value.value ELSE get_utility(node.state)

\* A step that finalizes an exhausted node gives it the value of
\* resolves_to; the evaluator, and with it its assertions, is only applied
\* to a node without a child.
resolves_exhausted ==
    exhausts_top =>
        /\ pc' = "minimax" => At(nodes', top_id).value.value = resolves_to(top_node)
        /\ pc' = "panicked" => children(top_id) = {}

\* C28: a node finalized because its generator is exhausted resolves to the
\* value it received from its children when it has a child, without the
\* evaluator being applied to its state, and to the evaluator's
\* classification of its own state when it has none, which includes every
\* node whose acting side has withdrawn.
C28_ExhaustedValue == [][resolves_exhausted]_vars

\* One node with an exhausted generator keeps a value from its children
\* that differs from the evaluator's classification of its state; another
\* node, at which a withdrawn party would act, has no child and carries the
\* evaluator's classification.
C28_Witness ==
    /\ \E i \in 1..Len(nodes) :
          /\ resolved(nodes[i].id)
          /\ children(nodes[i].id) # {}
          /\ nodes[i].action_iter # None
          /\ ActionIterator_next(nodes[i].action_iter[1]).item.kind = "None"
          /\ nodes[i].value.value # get_utility(nodes[i].state)
    /\ \E j \in 1..Len(nodes) :
          /\ resolved(nodes[j].id)
          /\ has_retreated(current_party(nodes[j]))
          /\ nodes[j].depth < max_depth
          /\ children(nodes[j].id) = {}
          /\ nodes[j].value.value = get_utility(nodes[j].state)

\* --------------------------------------------------------------------- C29
\* The k-th event of the timeline `t` records the side that made its move:
\* the initiator at odd plies, the opponent at even ones, and for a targeted
\* move the party of the move's source.
records_mover(t, k) ==
    /\ t[k].is_initiator_turn <=> (k % 2 = 1)
    /\ t[k].action.kind = "Targeted" =>
           (t[k].is_initiator_turn <=> t[k].action.source.party_id = conflict.initiator.id)

\* C29: in every event of the principal variation the recorded acting side
\* is the side that performed the event's move: the first event is marked as
\* the initiator's turn, the sides alternate, and a targeted move is marked
\* as the initiator's turn exactly when its source belongs to the initiator.
C29_ActingSide ==
    pc = "returned" => \A k \in DOMAIN result.timeline : records_mover(result.timeline, k)

\* --------------------------------------------------------------------- C30
\* Every node's id is its index in the node list and greater than its
\* parent's id; only the root has no parent.
index_addressed ==
    \A i \in 1..Len(nodes) :
        /\ nodes[i].id = i - 1
        /\ nodes[i].parent_id < nodes[i].id
        /\ i > 1 => nodes[i].parent_id >= 0

\* The node `after` a step has the parent, ply, maximizing flag, move and
\* state of the node `before` it.
same_branch(before, after) ==
    /\ after.id = before.id
    /\ after.parent_id = before.parent_id
    /\ after.depth = before.depth /\ after.turn = before.turn
    /\ after.is_maximizing = before.is_maximizing
    /\ after.action = before.action
    /\ after.state = before.state

\* A step of the loop removes no node and leaves every node it found where
\* and what it was, its value, best child and generator aside.
keeps_nodes ==
    in_loop =>
        /\ Len(nodes') >= Len(nodes)
        /\ \A i \in 1..Len(nodes) : same_branch(nodes[i], nodes'[i])

\* C30: the node collection is append-only and index-addressed: a node is
\* never removed or moved, its id equals its index and is greater than its
\* parent's id, and after it is appended its parent, ply, maximizing flag,
\* move and state never change, whatever is done to other nodes.
C30_AppendOnly == []index_addressed /\ [][keeps_nodes]_vars

\* A search that created sibling branches and their children has ended.
C30_Witness ==
    /\ pc = "returned"
    /\ Cardinality(children(0)) >= 2
    /\ \E c \in children(0) : children(c) # {}

\* --------------------------------------------------------------------- C31
\* The party the move of a child of `parent` was made by, and the party it
\* was aimed at, as they stand in `state`.
acting_party(parent, state) ==
    IF parent.is_maximizing THEN state.initiator ELSE state.opponent
target_party(parent, state) ==
    IF parent.is_maximizing THEN state.opponent ELSE state.initiator

\* `after` is `before` but for the health and the cumulative damage.
same_but_health(before, after) ==
    after = [before EXCEPT !.health = after.health, !.damage_taken = after.damage_taken]

\* The party `after` is the party `before` but for the health and cumulative
\* damage of its member with the id `member_id`: same party id, same flags,
\* same members in the same order.
differs_in_member(before, after, member_id) ==
    /\ after = [before EXCEPT !.members = after.members]
    /\ DOMAIN after.members = DOMAIN before.members
    /\ \A m \in DOMAIN before.members :
           IF before.members[m].id = member_id
           THEN same_but_health(before.members[m], after.members[m])
           ELSE after.members[m] = before.members[m]

\* The state of `child`, created from `parent` by a Targeted move, differs
\* from the parent's state only in the targeted member.
targeted_frame(parent, child) ==
    /\ acting_party(parent, child.state) = acting_party(parent, parent.state)
    /\ differs_in_member(target_party(parent, parent.state),
                         target_party(parent, child.state),
                         child.action[1].target.member_id)

\* The positions of `self` whose member has the id `id`.
positions_of(self, id) == {m \in DOMAIN self.members : self.members[m].id = id}

\* `after` is `self` with `new` in the place of the member of that id,
\* and `self` itself when no member has that id.
replaces_by_id(self, new, after) ==
    /\ after = [self EXCEPT !.members = after.members]
    /\ DOMAIN after.members = DOMAIN self.members
    /\ positions_of(self, new.id) = {} => after = self
    /\ \A m \in DOMAIN self.members :
           IF positions_of(self, new.id) = {m}
           THEN after.members[m] = new
           ELSE after.members[m] = self.members[m]

\* replace_member on `self` for every id up to one past the party's size.
replace_member_by_id(self) ==
    \A id \in 0..(Len(self.members) + 1) :
        replaces_by_id(self, member(id, 1, 1),
                       replace_member(self, member(id, 1, 1)))

\* C31: the state of a child created by a Targeted move differs from its
\* parent's state only in the health and cumulative damage of the single
\* targeted member (the member the move's target names): the acting party,
\* every other member of the target party, the member order and both
\* parties' withdrawal flags are unchanged; replace_member changes only the
\* member with the matching id and nothing when no member has that id.
C31_TargetedFrame ==
    \A c \in 2..Len(nodes) :
        /\ nodes[c].action[1].kind = "Targeted" =>
               targeted_frame(At(nodes, nodes[c].parent_id), nodes[c])
        /\ replace_member_by_id(nodes[c].state.initiator)
        /\ replace_member_by_id(nodes[c].state.opponent)

\* --------------------------------------------------------------------- C32
\* The value of the bound triplet `self` lies between its alpha and its beta.
within_bounds(self) ==
    self.alpha <= self.value.score /\ self.value.score <= self.beta

\* C32: for every node of the search tree, at every point of the search from
\* its creation on, the node's current value lies between its alpha and its
\* beta: alpha <= value <= beta.
C32_ValueWithinBounds == \A i \in DOMAIN nodes : within_bounds(nodes[i].value)

\* --------------------------------------------------------------------- C33
\* Whether the iteration for the popped `node`, whose expansion gives
\* `expansion`, calls get_utility: at the maximum depth, and for an exhausted
\* node that has no finite value yet.
evaluates(node, expansion) ==
    \/ continue_expansion(node) = "depth"
    \/ /\ continue_expansion(node) = "expand"
       /\ expansion.kind = "Exhausted"
       /\ ~is_finite(expansion.node.value.value)

\* What get_utility asserts of `state`: with the initiator defeated or
\* withdrawn the summed negative damage is below 0, otherwise the summed
\* health of the initiator is above 0.
asserted(state) ==
    IF is_defeated(state.initiator) \/ has_retreated(state.initiator)
    THEN NegDamageSum(state) < 0
    ELSE HealthSum(state) > 0

\* C33: the evaluator's internal assertions hold for every state the search
\* evaluates: whenever the initiator is defeated or has withdrawn the summed
\* negative damage is strictly less than 0 (also where the initiator withdrew
\* before taking any damage), and otherwise the summed initiator health is
\* strictly greater than 0.
C33_EvaluatorAssertions ==
    (in_loop /\ evaluates(top_node, minimax_expand(top_node, Len(nodes))))
        => asserted(top_node.state)

\* --------------------------------------------------------------------- C34
RECURSIVE target_pulls(_, _)
\* What the pull with the result `r` yields, and what the `k - 1` pulls
\* after it yield.
target_pulled(r, k) ==
    <<[some |-> r.some, action |-> r.action, index |-> r.index]>>
        \o target_pulls(r.iter, k - 1)

\* What `k` successive calls of next on the target iterator `self` yield.
target_pulls(self, k) ==
    IF k = 0 THEN <<>> ELSE target_pulled(ActionTargetIterator_next(self), k)

\* The results `s` of (b - a) + 2 calls for the range a..b and a member with
\* the one action `action`: the pairs (action, a), ..., (action, b - 1) in
\* that order, then nothing.
yields_range(s, action, a, b) ==
    /\ Len(s) = (b - a) + 2
    /\ \A i \in 1..(b - a) : s[i].some /\ s[i].action = action /\ s[i].index = a + i - 1
    /\ \A i \in (b - a + 1)..Len(s) : ~s[i].some
    /\ \A i \in DOMAIN s : s[i].some => a <= s[i].index /\ s[i].index < b

\* yields_range for a new target iterator of the member `self`.
target_iterator_in_range(self, a, b) ==
    yields_range(target_pulls(ActionTargetIterator_new(self, a, b), (b - a) + 2),
                 [damage |-> self.weapon], a, b)

\* The generator of `node`, when the expansion of `node` pulls from it,
\* reads no target outside the target party's member list.
generator_indexes_inside(node) ==
    (continue_expansion(node) = "expand" /\ ~has_retreated(current_party(node)))
        => pulled_move(node).kind # "Panic"

\* C34: for a member with one action and any target index range a..b, the
\* per-member target iterator yields the pairs (action, t) for t = a, a + 1,
\* ..., b - 1 in that order, each once, and then nothing; every yielded
\* index t satisfies a <= t < b, so for an empty range it yields nothing and
\* the move generator never indexes outside the target party's member list.
\* Checked for every member of the contest and every range within
\* 0..MaxMembers + 1, and for the generator at every expansion of the search.
C34_TargetRange ==
    /\ \A self \in members_of(conflict) :
           \A a, b \in 0..(MaxMembers + 1) :
               a <= b => target_iterator_in_range(self, a, b)
    /\ in_loop => generator_indexes_inside(top_node)

\* --------------------------------------------------------------------- C35
fixed_depth_search == strategy.kind = "DepthLimited"

\* The search is over, by a return or by an abort.
stopped == pc # "minimax"

\* Every node of the list is off the stack with a finite value.
all_finalized == \A i \in DOMAIN nodes : finalized(nodes[i])

\* Every iteration so far either created a node other than the root or
\* finalized one of the nodes now off the stack: none was finalized twice.
finalized_once == evaluations = (Len(nodes) - 1) + (Len(nodes) - Len(dfs_queue))

\* The tree is finite: no node lies beyond the maximum depth, and a node has
\* no more children than the withdrawal and members x actions x targets.
finite_tree ==
    \A i \in DOMAIN nodes :
        /\ nodes[i].depth <= max_depth
        /\ Cardinality(children(nodes[i].id))
               <= 1 + Len(nodes[i].state.initiator.members)
                      * Len(nodes[i].state.opponent.members)

\* A step puts no node back on the stack that was off it.
stays_off_stack ==
    \A id \in 0..(Len(nodes) - 1) :
        resolved(id) => \A q \in DOMAIN dfs_queue' : dfs_queue'[q] # id

\* A step of the loop is counted, or aborts the search.
counts_iteration == in_loop => evaluations' = evaluations + 1 \/ pc' = "panicked"

\* The iteration for the popped `node`, whose expansion gives `expansion`,
\* takes one of the loop's branches.
takes_a_branch(node, expansion) ==
    \/ continue_expansion(node) \in {"beta", "alpha", "defeat", "depth"}
    \/ /\ continue_expansion(node) = "expand"
       /\ expansion.kind \in {"Expanded", "Exhausted", "Panic"}

\* The loop of the fixed-depth search goes on while the stack holds a node,
\* over a finite tree, and is left only with the stack empty and every node
\* finalized, none twice.
runs_to_empty_stack ==
    /\ in_loop => takes_a_branch(top_node, minimax_expand(top_node, Len(nodes)))
    /\ finite_tree
    /\ finalized_once
    /\ stopped => dfs_queue = <<>>
    /\ dfs_queue = <<>> => all_finalized

\* C35: for any contest with finitely many members and any maximum depth the
\* fixed-depth search terminates: the work stack eventually becomes empty,
\* every created node is finalized exactly once (by a cutoff, by depth-limit
\* evaluation or by exhaustion), and no node is popped again after it has
\* been finalized.  Termination is stated by its proof: every iteration is
\* counted, the tree it walks is finite, the loop never blocks and the search
\* stops only with the stack empty.
C35_Termination ==
    /\ [](fixed_depth_search => runs_to_empty_stack)
    /\ [][fixed_depth_search => stays_off_stack /\ counts_iteration]_vars

\* --------------------------------------------------------------------- C36
\* The stack `queue`, bottom first, is a chain of ancestors from the root:
\* its bottom entry is the root and each entry is the parent of the one
\* above it.
ancestor_chain(queue) ==
    /\ queue # <<>> => queue[1] = 0
    /\ \A q \in 1..(Len(queue) - 1) : At(nodes, queue[q + 1]).parent_id = queue[q]

\* The ids on the stack `queue` increase strictly from bottom to top, so
\* none is on it twice.
strictly_increasing(queue) ==
    /\ \A q \in 1..(Len(queue) - 1) : queue[q] < queue[q + 1]
    /\ \A p, q \in DOMAIN queue : queue[p] = queue[q] => p = q

\* C36: at every point of the search the work stack, read from bottom to
\* top, is a chain of ancestors starting at the root: each entry is the
\* parent of the entry above it, so ids on the stack are strictly increasing,
\* no id is on the stack twice, and the stack height never exceeds the
\* maximum depth of the run + 1.
C36_AncestorChain ==
    /\ ancestor_chain(dfs_queue)
    /\ strictly_increasing(dfs_queue)
    /\ Len(dfs_queue) <= max_depth + 1

\* The stack holds a chain from the root down to a node at the maximum depth
\* of a run three plies deep.
C36_Witness ==
    /\ max_depth = 3
    /\ Len(dfs_queue) = max_depth + 1
    /\ top_node.depth = max_depth

\* --------------------------------------------------------------------- C37
\* The node `node` carries the classification (tag and score) of its best
\* child if it has one, and the evaluator's classification of its own state
\* if it has none.
carries_classification(node) ==
    IF node.best_child # NoId
    THEN node.value.value = At(nodes, node.best_child).value.value
    ELSE node.value.value = get_utility(node.state)

\* The outcome reported is the evaluator's classification of the state of
\* the last event of the timeline `t`.
reports_last_state(outcome, t) ==
    t # <<>> /\ outcome = OutcomeType(get_utility(t[Len(t)].state))

\* C37: when the search ends, every node that has a best child carries
\* exactly the final classification (tag and score) of that best child, and
\* every finalized node without a best child carries the utility evaluator's
\* classification of its own state; hence the classification reported for
\* the root is the utility evaluator applied to the resulting state of the
\* last event of the principal variation.
C37_ClassificationChain ==
    /\ loop_done => \A i \in DOMAIN nodes : carries_classification(nodes[i])
    /\ pc = "returned" => reports_last_state(result.outcome, result.timeline)

\* A search has returned a principal variation of three events or more whose
\* last state the evaluator classifies as a win, and the tree holds nodes
\* with and without a best child.
C37_Witness ==
    /\ pc = "returned"
    /\ Len(result.timeline) >= 3
    /\ result.outcome.tag = "Win"
    /\ \E i \in DOMAIN nodes : nodes[i].parent_id # NoId /\ nodes[i].best_child # NoId
    /\ \E i \in DOMAIN nodes : nodes[i].best_child = NoId

\* --------------------------------------------------------------------- C38
\* Alpha is below beta in every node.
alpha_below_beta == \A i \in DOMAIN nodes : nodes[i].value.alpha < nodes[i].value.beta

\* From `before` to `after` alpha is not lowered and moves only at a
\* maximizing node, beta is not raised and moves only at a minimizing node.
bounds_tighten(before, after) ==
    /\ after.value.alpha >= before.value.alpha
    /\ after.value.beta <= before.value.beta
    /\ after.value.alpha # before.value.alpha => before.is_maximizing
    /\ after.value.beta # before.value.beta => ~before.is_maximizing

\* The child `child` starts with the alpha and the beta `parent` has.
inherits_bounds(parent, child) ==
    /\ child.value.alpha = parent.value.alpha
    /\ child.value.beta = parent.value.beta

\* A step of the loop tightens the bounds of the nodes there are and gives a
\* node it creates the bounds its parent has at that moment.
steps_bounds ==
    in_loop =>
        /\ \A i \in DOMAIN nodes : bounds_tighten(nodes[i], nodes'[i])
        /\ \A i \in DOMAIN nodes' :
               i > Len(nodes) => inherits_bounds(At(nodes, nodes'[i].parent_id), nodes'[i])

\* C38: in every node of the search tree, at every point of the search,
\* alpha is strictly less than beta; alpha is only ever raised and only at
\* maximizing nodes, beta is only ever lowered and only at minimizing nodes,
\* and a child's initial alpha and beta are its parent's alpha and beta at
\* the moment of the expansion.
C38_BoundsWindow == []alpha_below_beta /\ [][steps_bounds]_vars

\* The root's alpha has been raised, a minimizing node's beta has been
\* lowered, and a node was created under a window closed on both sides.
C38_Witness ==
    /\ At(nodes, 0).value.alpha > NEG_INFINITY
    /\ \E i \in DOMAIN nodes :
           /\ ~nodes[i].is_maximizing
           /\ nodes[i].best_child # NoId
           /\ nodes[i].value.beta < At(nodes, nodes[i].parent_id).value.beta
    /\ \E i \in DOMAIN nodes :
           /\ nodes[i].value.alpha > NEG_INFINITY
           /\ nodes[i].value.beta < INFINITY

\* --------------------------------------------------------------------- C39
\* Both parties of the contest have at least one member.
both_manned == conflict.initiator.members # <<>> /\ conflict.opponent.members # <<>>

\* The outcome `outcome` of a run that met no depth limit is decided.
decided_unless_limited(outcome) ==
    ~outcome.depth_limited => outcome.outcome.tag \in {"Win", "Lose", "Remain", "Retreat"}

\* C39: if a fixed-depth search on a contest whose two parties each have at
\* least one member returns with was_depth_limited = false, the reported
\* outcome is Win, Lose, Remain or Retreat and never Unknown: no Heuristic
\* value reaches the root when no node hit the depth limit.
C39_DecidedUnlessLimited ==
    (pc = "returned" /\ strategy.kind = "DepthLimited" /\ both_manned)
        => decided_unless_limited(result)

\* --------------------------------------------------------------------- C40
\* The ids of the members of `after` that differ from the member of `before`
\* in the same place.
changed_ids(before, after) ==
    {before.members[m].id : m \in {k \in DOMAIN before.members :
                                      after.members[k] # before.members[k]}}

\* The member ids of `self` are unique.
unique_ids(self) ==
    \A m, k \in DOMAIN self.members : self.members[m].id = self.members[k].id => m = k

\* The move of `child`, a Targeted move on a party with unique ids, changed
\* the member its target names and no other.
hits_target_id(parent, child) ==
    unique_ids(target_party(parent, parent.state))
        => changed_ids(target_party(parent, parent.state),
                       target_party(parent, child.state))
               = {child.action[1].target.member_id}

\* C40: for every child created by a Targeted move, in any party whose member
\* ids are unique (whether or not they equal the members' positions in the
\* list), the member whose health and cumulative damage change in the child's
\* state is the member whose id equals the move's target member_id.
C40_TargetById ==
    \A c \in 2..Len(nodes) :
        nodes[c].action[1].kind = "Targeted"
            => hits_target_id(At(nodes, nodes[c].parent_id), nodes[c])

====
